---- MODULE Spec2Model ----
(***************************************************************************)
(* A model of qe-rs: the typed inputs of pw.x, bands.x and pw2wannier90.x, *)
(* the runtime validation of the pw.x input, and the renderers that turn   *)
(* an input into the text of a Quantum Espresso input file.                *)
(*                                                                         *)
(* Representation.                                                         *)
(*   Option<T>   None is <<>>, Some(x) is <<x>>.                            *)
(*   Result<T,E> Ok(v) is <<"Ok", v>>, Err(e) is <<"Err", e>>.              *)
(*   f64         an integer: the sample values are finite and integral     *)
(*               (no NaN, for which every comparison of validate is false).*)
(*   String      a piece of text without newline is a sequence of tokens   *)
(*               (the literal pieces and the formatted arguments of the    *)
(*               format! that built it).  A text is the sequence of its    *)
(*               lines, so it always has at least one line: the empty      *)
(*               string is the one empty line << <<>> >>.                  *)
(*   PathBuf     a record [utf8, s]; to_str is None when utf8 is FALSE.    *)
(***************************************************************************)
EXTENDS Integers, Sequences, FiniteSets, Bags, TLC

VARIABLES prog, input, result, fs, lines, renderings

vars == <<prog, input, result, fs, lines, renderings>>

--------------------------------------------------------------------------
(* Bounds of the model. *)

MaxSpecies == 2

MaxAtoms == 2

MaxNk == 2

MaxLines == 2

--------------------------------------------------------------------------
(* Option and Result. *)

None == <<>>

Some(x) == <<x>>

IsSome(o) == Len(o) = 1

IsNone(o) == Len(o) = 0

Ok(v) == <<"Ok", v>>

Err(e) == <<"Err", e>>

IsOk(r) == r[1] = "Ok"

IsErr(r) == r[1] = "Err"

Unit == <<>>

--------------------------------------------------------------------------
(* Texts. *)

\* The lines of the texts, one text after the other.
RECURSIVE Flatten(_)
Flatten(texts) ==
    IF texts = <<>> THEN <<>> ELSE Head(texts) \o Flatten(Tail(texts))

\* [String]::join("\n"): the texts in order, separated by one line break; the
\* join of no text is the empty string, which is one empty line.
JoinNewline(texts) ==
    IF texts = <<>> THEN << <<>> >> ELSE Flatten(texts)

\* A piece of text without a line break, as a text.
Line(tokens) == << tokens >>

\* format!("{}", x) for an f64 with an integral value: "3" for 3.0.
FmtDisplay(x) == ToString(x)

\* format!("{:e}", x) for an f64 with an integral value of one digit: "1e0".
FmtLowerExp(x) == ToString(x) \o "e0"

\* format!("{}", n) for an integer.
FmtInt(n) == ToString(n)

\* PathBuf::to_str
to_str(path) == IF path.utf8 THEN Some(path.s) ELSE None

--------------------------------------------------------------------------
(* pw::input: validate and its errors. *)

LatticeConstant(x) == <<"LatticeConstant", x>>

ConvThr(x) == <<"ConvThr", x>>

DiagoThrInit(x) == <<"DiagoThrInit", x>>

Ecutwfc(x) == <<"Ecutwfc", x>>

Ecutrho(x) == <<"Ecutrho", x>>

SmearingErr(x) == <<"Smearing", x>>

Mass(label, x) == <<"Mass", label, x>>

ErrorList(errs) == [errs |-> errs]

\* The character U+0060 of a message, which a string of the model cannot hold.
Backquote == "<U+0060>"

\* Display of pw::input::Error, a text of one line.
input_Error_fmt(e) ==
    CASE e[1] = "LatticeConstant" ->
           Line(<<"Lattice constant ", Backquote, "alat", Backquote, " must be positive; got ",
                  FmtDisplay(e[2]), " instead.">>)
      [] e[1] = "ConvThr" ->
           Line(<<"SCF convergence threshold ", Backquote, "conv_thr", Backquote, " must be positive; got ",
                  FmtDisplay(e[2]), " instead.">>)
      [] e[1] = "DiagoThrInit" ->
           Line(<<"Diagonalization convergence threshold ", Backquote, "diago_thr_init", Backquote, " must be positive; got ",
                  FmtDisplay(e[2]), " insead.">>)
      [] e[1] = "Ecutwfc" ->
           Line(<<"Wavefunction cutoff energy ", Backquote, "ecutwfc", Backquote, " must be positive; got ",
                  FmtDisplay(e[2]), " instead.">>)
      [] e[1] = "Ecutrho" ->
           Line(<<"Charge density cutoff energy ", Backquote, "ecutwfc", Backquote, " must be positive; got ",
                  FmtDisplay(e[2]), " instead.">>)
      [] e[1] = "Smearing" ->
           Line(<<"Smearing value must be positive; got ", FmtDisplay(e[2]), " instead.">>)
      [] e[1] = "Mass" ->
           Line(<<"Atomic mass must be positive; for atom ", e[2], " got ",
                  FmtDisplay(e[3]), " instead.">>)
      [] e[1] = "Species" ->
           Line(<<"Species ", e[2], " in coordinate list is not given in species list.">>)

\* Display of ErrorList, ending every error with a line break.
ErrorList_fmt_line_per_error(list) ==
    Flatten([i \in DOMAIN list.errs |-> input_Error_fmt(list.errs[i])]) \o << <<>> >>

\* Display of ErrorList<pw::input::Error>.
ErrorList_fmt(list) ==
    JoinNewline([i \in DOMAIN list.errs |-> input_Error_fmt(list.errs[i])])

\* The mass check with the comparison the other way round.
RECURSIVE MassErrors_flipped(_)
MassErrors_flipped(species) ==
    IF species = <<>> THEN <<>>
    ELSE (IF Head(species).mass >= 0
          THEN <<Mass(Head(species).label, Head(species).mass)>>
          ELSE <<>>) \o MassErrors_flipped(Tail(species))

\* for species in &input.species { if species.mass <= 0.0 { errs.push(..) } }
RECURSIVE MassErrors(_)
MassErrors(species) ==
    IF species = <<>> THEN <<>>
    ELSE (IF Head(species).mass <= 0
          THEN <<Mass(Head(species).label, Head(species).mass)>>
          ELSE <<>>) \o MassErrors(Tail(species))

ThresholdErrors(calculation) ==
    IF calculation.kind = "Scf"
    THEN (IF calculation.conv_thr <= 0
          THEN <<ConvThr(calculation.conv_thr)>> ELSE <<>>)
    ELSE (IF calculation.diago_thr_init <= 0
          THEN <<DiagoThrInit(calculation.diago_thr_init)>> ELSE <<>>)

SmearingErrors(occupations) ==
    IF occupations.kind = "Smearing" /\ occupations.degauss <= 0
    THEN <<SmearingErr(occupations.degauss)>> ELSE <<>>

\* validate, stopping at the first violated rule.
validate_first_error(inp) ==
    LET system == inp.system
        errs ==
            (IF system.alat <= 0 THEN <<LatticeConstant(system.alat)>> ELSE <<>>)
            \o ThresholdErrors(inp.calculation)
            \o (IF system.ecutwfc <= 0 THEN <<Ecutwfc(system.ecutwfc)>> ELSE <<>>)
            \o (IF system.ecutrho <= 0 THEN <<Ecutrho(system.ecutrho)>> ELSE <<>>)
            \o SmearingErrors(system.occupations)
            \o MassErrors(inp.species)
    IN  IF Len(errs) = 0 THEN Ok(Unit) ELSE Err(ErrorList(<<Head(errs)>>))

\* validate, checking the cutoffs before the lattice constant.
validate_cutoffs_first(inp) ==
    LET system == inp.system
        errs ==
            (IF system.ecutwfc <= 0 THEN <<Ecutwfc(system.ecutwfc)>> ELSE <<>>)
            \o (IF system.ecutrho <= 0 THEN <<Ecutrho(system.ecutrho)>> ELSE <<>>)
            \o (IF system.alat <= 0 THEN <<LatticeConstant(system.alat)>> ELSE <<>>)
            \o ThresholdErrors(inp.calculation)
            \o SmearingErrors(system.occupations)
            \o MassErrors(inp.species)
    IN  IF Len(errs) = 0 THEN Ok(Unit) ELSE Err(ErrorList(errs))

validate(inp) ==
    LET system == inp.system
        errs ==
            (IF system.alat <= 0 THEN <<LatticeConstant(system.alat)>> ELSE <<>>)
            \o ThresholdErrors(inp.calculation)
            \o (IF system.ecutwfc <= 0 THEN <<Ecutwfc(system.ecutwfc)>> ELSE <<>>)
            \o (IF system.ecutrho <= 0 THEN <<Ecutrho(system.ecutrho)>> ELSE <<>>)
            \o SmearingErrors(system.occupations)
            \o MassErrors(inp.species)
    IN  IF Len(errs) = 0 THEN Ok(Unit) ELSE Err(ErrorList(errs))

--------------------------------------------------------------------------
(* pw::serialize: the Field values. *)

CalculationValue(calculation) ==
    CASE calculation.kind = "Scf" -> "scf"
      [] calculation.kind = "Nscf" -> "nscf"
      [] calculation.kind = "Bands" -> "bands"

RestartModeValue(m) ==
    CASE m = "FromScratch" -> "from_scratch"
      [] m = "Restart" -> "restart"

DiskIOValue(d) ==
    CASE d = "Low" -> "low"
      [] d = "Medium" -> "medium"
      [] d = "High" -> "high"
      [] d = "NoDiskIO" -> "none"

LatticeDirectionValue(d) ==
    CASE d = "D1" -> "1"
      [] d = "D2" -> "2"
      [] d = "D3" -> "3"

IbravValue(ibrav) ==
    CASE ibrav.kind = "Free" -> "0"

OccupationsValue(o) ==
    CASE o.kind = "Smearing" -> "smearing"
      [] o.kind = "Tetrahedra" -> "tetrahedra"
      [] o.kind = "TetrahedraLin" -> "tetrahedra_lin"
      [] o.kind = "TetrahedraOpt" -> "tetrahedra_opt"
      [] o.kind = "Fixed" -> "fixed"

StartingWfcValue(w) ==
    CASE w = "Atomic" -> "atomic"
      [] w = "AtomicPlusRandom" -> "atomic+random"
      [] w = "Random" -> "random"
      [] w = "File" -> "file"

DiagonalizationValue(d) ==
    CASE d = "David" -> "david"
      [] d = "Cg" -> "cg"

LatticeUnitsValue(u) ==
    CASE u = "Bohr" -> "bohr"
      [] u = "Angstrom" -> "angstrom"
      [] u = "Alat" -> "alat"

PositionCoordinateTypeValue(t) ==
    CASE t = "AlatCartesian" -> "alat"
      [] t = "BohrCartesian" -> "bohr"
      [] t = "AngstromCartesian" -> "angstrom"
      [] t = "Crystal" -> "crystal"
      [] t = "CrystalSG" -> "crystal_sg"

KPointsValue(k) ==
    CASE k.kind \in {"Crystal", "CrystalUniform"} -> "crystal"
      [] k.kind = "Automatic" -> "automatic"
      [] k.kind = "CrystalBands" -> "crystal_b"


--------------------------------------------------------------------------
(* pw::input: the uniform grid of k-points. *)

RECURSIVE Gcd(_, _)
Gcd(a, b) == IF b = 0 THEN a ELSE Gcd(b, a % b)

\* The f64 quotient (a as f64) / (b as f64) of two small naturals, kept as the
\* fraction a/b in lowest terms: two quotients are the same f64 exactly when
\* their fractions are equal.  b = 0 gives <<1, 0>>, the infinity of 1.0 / 0.0.
Quotient(a, b) ==
    LET g == Gcd(a, b) IN IF g = 0 THEN <<0, 0>> ELSE <<a \div g, b \div g>>

\* format!("{}", q) of a quotient: an integral value prints as the integer;
\* the decimal text of any other value is written "p/q" here.
FmtQuotient(q) ==
    IF q[2] = 1 THEN ToString(q[1])
    ELSE ToString(q[1]) \o "/" \o ToString(q[2])

\* The loop nest with k0 as the inner loop and k2 as the outer one.
RECURSIVE UniformLoop_first_fastest(_, _, _, _)
UniformLoop_first_fastest(nk, k0, k1, k2) ==
    IF k2 >= nk[3] THEN <<>>
    ELSE IF k1 >= nk[2] THEN UniformLoop_first_fastest(nk, 0, 0, k2 + 1)
    ELSE IF k0 >= nk[1] THEN UniformLoop_first_fastest(nk, 0, k1 + 1, k2)
    ELSE << <<Quotient(k0, nk[1]), Quotient(k1, nk[2]), Quotient(k2, nk[3])>> >>
         \o UniformLoop_first_fastest(nk, k0 + 1, k1, k2)

\* The loop nest of generate_uniform_kpoints, as the sequence of the points
\* pushed: k0 is the outer loop, k2 the inner one.
RECURSIVE UniformLoop(_, _, _, _)
UniformLoop(nk, k0, k1, k2) ==
    IF k0 >= nk[1] THEN <<>>
    ELSE IF k1 >= nk[2] THEN UniformLoop(nk, k0 + 1, 0, 0)
    ELSE IF k2 >= nk[3] THEN UniformLoop(nk, k0, k1 + 1, 0)
    ELSE << <<Quotient(k0, nk[1]), Quotient(k1, nk[2]), Quotient(k2, nk[3])>> >>
         \o UniformLoop(nk, k0, k1, k2 + 1)

generate_uniform_kpoints(nk) == UniformLoop(nk, 0, 0, 0)

--------------------------------------------------------------------------
(* pw::serialize: the sections. *)

\* The pw renderer's private copy of push_bool_field.
pw_push_bool_field(ls, name, b) ==
    IF IsSome(b)
    THEN LET val == IF b[1] THEN ".true." ELSE ".false."
         IN  Append(ls, Line(<<"    ", name, "=", val, ",">>))
    ELSE ls

\* The statements of make_control up to and including wf_collect.
ControlHead(inp) ==
    LET control == inp.control
        l0 == << Line(<<" &control">>),
                 Line(<<"    ", "calculation", "=", "'",
                        CalculationValue(inp.calculation), "'", ",">>) >>
        l1 == IF IsSome(control.restart_mode)
              THEN Append(l0, Line(<<"    ", "restart_mode", "=", "'",
                                     RestartModeValue(control.restart_mode[1]), "'", ",">>))
              ELSE l0
        l2 == IF IsSome(control.disk_io)
              THEN Append(l1, Line(<<"    ", "disk_io", "=", "'",
                                     DiskIOValue(control.disk_io[1]), "'", ",">>))
              ELSE l1
    IN  pw_push_bool_field(l2, "wf_collect", control.wf_collect)

\* The end of make_control without the dipfield line.
ControlTail_no_dipfield(inp, ls) ==
    LET control == inp.control
        l1 == IF IsSome(inp.efield)
              THEN pw_push_bool_field(ls, "tefield", Some(TRUE))
              ELSE ls
        l2 == IF IsSome(control.prefix)
              THEN Append(l1, Line(<<"    ", "prefix", "=", "'",
                                     control.prefix[1], "'", ",">>))
              ELSE l1
    IN  Append(l2, Line(<<" /">>))

\* The statements of make_control after out_dir.
ControlTail(inp, ls) ==
    LET control == inp.control
        l1 == IF IsSome(inp.efield)
              THEN pw_push_bool_field(
                       pw_push_bool_field(ls, "tefield", Some(TRUE)),
                       "dipfield", Some(inp.efield[1].dipfield))
              ELSE ls
        l2 == IF IsSome(control.prefix)
              THEN Append(l1, Line(<<"    ", "prefix", "=", "'",
                                     control.prefix[1], "'", ",">>))
              ELSE l1
    IN  Append(l2, Line(<<" /">>))

PseudoDir == <<"PseudoDir">>

OutDir == <<"OutDir">>

InputError(errorList) == <<"Input", errorList>>

Io(e) == <<"Io", e>>

\* Display of pw::serialize::Error; the text of an io::Error is the name the
\* model gives to the failed call.
serialize_Error_fmt(e) ==
    CASE e[1] = "Input" -> ErrorList_fmt(e[2])
      [] e[1] = "Io" -> Line(<<e[2]>>)
      [] e[1] = "PseudoDir" -> Line(<<Backquote, "pseudo_dir", Backquote, " is not valid UTF-8">>)
      [] e[1] = "OutDir" -> Line(<<Backquote, "out_dir", Backquote, " is not valid UTF-8">>)

make_control(inp) ==
    LET control == inp.control
        l0 == ControlHead(inp)
        pseudoBad == IsSome(control.pseudo_dir) /\ IsNone(to_str(control.pseudo_dir[1]))
        l1 == IF IsSome(control.pseudo_dir) /\ ~pseudoBad
              THEN Append(l0, Line(<<"    ", "pseudo_dir", "=", "'",
                                     to_str(control.pseudo_dir[1])[1], "'", ",">>))
              ELSE l0
        outBad == IsSome(control.out_dir) /\ IsNone(to_str(control.out_dir[1]))
        l2 == IF IsSome(control.out_dir) /\ ~outBad
              THEN Append(l1, Line(<<"    ", "out_dir", "=", "'",
                                     to_str(control.out_dir[1])[1], "'", ",">>))
              ELSE l1
    IN  IF pseudoBad THEN Err(PseudoDir)
        ELSE IF outBad THEN Err(OutDir)
        ELSE Ok(JoinNewline(ControlTail(inp, l2)))

\* let nat = input.atomic_positions.coordinates.len(), taken from the species.
nat_from_species(inp) == Len(inp.species)

\* let nat = input.atomic_positions.coordinates.len();
nat(inp) == Len(inp.atomic_positions.coordinates)

\* let ntyp = input.species.len();
ntyp(inp) == Len(inp.species)

make_system(inp) ==
    LET system == inp.system
        l0 == << Line(<<" &system">>),
                 Line(<<"    ", "ibrav", "=", IbravValue(system.ibrav), ",">>),
                 Line(<<"    ", "celldm(1)", "=", FmtDisplay(system.alat), ",">>),
                 Line(<<"    ", "nat", "=", FmtInt(nat(inp)), ",">>),
                 Line(<<"    ", "ntyp", "=", FmtInt(ntyp(inp)), ",">>),
                 Line(<<"    ", "ecutwfc", "=", FmtDisplay(system.ecutwfc), ",">>),
                 Line(<<"    ", "ecutrho", "=", FmtDisplay(system.ecutrho), ",">>),
                 Line(<<"    ", "occupations", "=", "'",
                        OccupationsValue(system.occupations), "'", ",">>) >>
        l1 == IF IsNone(system.spin_type) THEN l0
              ELSE CASE system.spin_type[1].kind = "NonPolarized" ->
                          Append(l0, Line(<<"    ", "nspin", "=", "1", ",">>))
                     [] system.spin_type[1].kind = "CollinearPolarized" ->
                          Append(l0, Line(<<"    ", "nspin", "=", "2", ",">>))
                     [] system.spin_type[1].kind = "Noncollinear" ->
                          pw_push_bool_field(
                              Append(l0, Line(<<"    ", "noncolin", "=", ".true.", ",">>)),
                              "lspinorb", Some(system.spin_type[1].spin_orbit))
        l2 == IF IsSome(inp.efield)
              THEN l1 \o
                   << Line(<<"    ", "edir", "=",
                             LatticeDirectionValue(inp.efield[1].edir), ",">>),
                      Line(<<"    ", "emaxpos", "=", FmtDisplay(inp.efield[1].emaxpos), ",">>),
                      Line(<<"    ", "eopreg", "=", FmtDisplay(inp.efield[1].eopreg), ",">>),
                      Line(<<"    ", "eamp", "=", FmtLowerExp(inp.efield[1].eamp), ",">>) >>
              ELSE l1
    IN  JoinNewline(Append(l2, Line(<<" /">>)))

\* make_electrons printing the threshold of every variant as conv_thr.
make_electrons_always_conv_thr(inp) ==
    LET electrons == inp.electrons
        l0 == << Line(<<" &electrons">>) >>
        l1 == IF IsSome(electrons.startingwfc)
              THEN Append(l0, Line(<<"    ", "startingwfc", "=", "'",
                                     StartingWfcValue(electrons.startingwfc[1]), "'", ",">>))
              ELSE l0
        l2 == IF IsSome(electrons.diagonalization)
              THEN Append(l1, Line(<<"    ", "diagonalization", "=", "'",
                                     DiagonalizationValue(electrons.diagonalization[1]),
                                     "'", ",">>))
              ELSE l1
        thr == IF inp.calculation.kind = "Scf" THEN inp.calculation.conv_thr
               ELSE inp.calculation.diago_thr_init
        l3 == Append(l2, Line(<<"    ", "conv_thr", "=", FmtLowerExp(thr), ",">>))
    IN  JoinNewline(Append(l3, Line(<<" /">>)))

\* make_electrons with a line for the nbnd of Nscf and Bands.
make_electrons_with_nbnd(inp) ==
    LET electrons == inp.electrons
        l0 == << Line(<<" &electrons">>) >>
        l1 == IF IsSome(electrons.startingwfc)
              THEN Append(l0, Line(<<"    ", "startingwfc", "=", "'",
                                     StartingWfcValue(electrons.startingwfc[1]), "'", ",">>))
              ELSE l0
        l2 == IF IsSome(electrons.diagonalization)
              THEN Append(l1, Line(<<"    ", "diagonalization", "=", "'",
                                     DiagonalizationValue(electrons.diagonalization[1]),
                                     "'", ",">>))
              ELSE l1
        l3 == IF inp.calculation.kind = "Scf"
              THEN Append(l2, Line(<<"    ", "conv_thr", "=",
                                     FmtLowerExp(inp.calculation.conv_thr), ",">>))
              ELSE Append(l2, Line(<<"    ", "diago_thr_init", "=",
                                     FmtLowerExp(inp.calculation.diago_thr_init), ",">>))
        l4 == IF inp.calculation.kind # "Scf" /\ IsSome(inp.calculation.nbnd)
              THEN Append(l3, Line(<<"    ", "nbnd", "=",
                                     FmtInt(inp.calculation.nbnd[1]), ",">>))
              ELSE l3
    IN  JoinNewline(Append(l4, Line(<<" /">>)))

make_electrons(inp) ==
    LET electrons == inp.electrons
        l0 == << Line(<<" &electrons">>) >>
        l1 == IF IsSome(electrons.startingwfc)
              THEN Append(l0, Line(<<"    ", "startingwfc", "=", "'",
                                     StartingWfcValue(electrons.startingwfc[1]), "'", ",">>))
              ELSE l0
        l2 == IF IsSome(electrons.diagonalization)
              THEN Append(l1, Line(<<"    ", "diagonalization", "=", "'",
                                     DiagonalizationValue(electrons.diagonalization[1]),
                                     "'", ",">>))
              ELSE l1
        l3 == IF inp.calculation.kind = "Scf"
              THEN Append(l2, Line(<<"    ", "conv_thr", "=",
                                     FmtLowerExp(inp.calculation.conv_thr), ",">>))
              ELSE Append(l2, Line(<<"    ", "diago_thr_init", "=",
                                     FmtLowerExp(inp.calculation.diago_thr_init), ",">>))
    IN  JoinNewline(Append(l3, Line(<<" /">>)))


RECURSIVE SpeciesLines(_)
SpeciesLines(species) ==
    IF species = <<>> THEN <<>>
    ELSE << Line(<<" ", Head(species).label, " ", FmtDisplay(Head(species).mass), " ",
                   Head(species).pseudopotential_filename>>) >>
         \o SpeciesLines(Tail(species))

make_species(inp) ==
    JoinNewline(<< Line(<<"ATOMIC_SPECIES">>) >> \o SpeciesLines(inp.species))

RECURSIVE LatvecLines(_)
LatvecLines(cell) ==
    IF cell = <<>> THEN <<>>
    ELSE << Line(<<" ", FmtDisplay(Head(cell)[1]), " ", FmtDisplay(Head(cell)[2]), " ",
                   FmtDisplay(Head(cell)[3])>>) >>
         \o LatvecLines(Tail(cell))

make_cell(inp) ==
    CASE inp.system.ibrav.kind = "Free" ->
        LET cell == inp.system.ibrav.cell
        IN  Some(JoinNewline(
                << Line(<<"CELL_PARAMETERS", " ", LatticeUnitsValue(cell.units)>>) >>
                \o LatvecLines(cell.cell)))

render_bool_list(xs) ==
    <<IF xs[1] THEN "1" ELSE "0", " ",
      IF xs[2] THEN "1" ELSE "0", " ",
      IF xs[3] THEN "1" ELSE "0">>

RECURSIVE CoordinateLines(_)
CoordinateLines(coordinates) ==
    IF coordinates = <<>> THEN <<>>
    ELSE LET coord == Head(coordinates)
             r == coord.r
         IN  << IF IsSome(coord.if_pos)
                THEN Line(<<" ", coord.species, " ", FmtDisplay(r[1]), " ",
                            FmtDisplay(r[2]), " ", FmtDisplay(r[3]), " ">>
                          \o render_bool_list(coord.if_pos[1]))
                ELSE Line(<<" ", coord.species, " ", FmtDisplay(r[1]), " ",
                            FmtDisplay(r[2]), " ", FmtDisplay(r[3])>>) >>
             \o CoordinateLines(Tail(coordinates))

make_positions(inp) ==
    LET positions == inp.atomic_positions
    IN  JoinNewline(
            << Line(<<"ATOMIC_POSITIONS", " ",
                      PositionCoordinateTypeValue(positions.coordinate_type)>>) >>
            \o CoordinateLines(positions.coordinates))

RECURSIVE CrystalLines(_)
CrystalLines(k_points) ==
    IF k_points = <<>> THEN <<>>
    ELSE LET kw == Head(k_points)
         IN  << Line(<<FmtDisplay(kw[1]), " ", FmtDisplay(kw[2]), " ",
                       FmtDisplay(kw[3]), " ", FmtDisplay(kw[4])>>) >>
             \o CrystalLines(Tail(k_points))

RECURSIVE UniformLines(_, _)
UniformLines(k_points, weight) ==
    IF k_points = <<>> THEN <<>>
    ELSE LET k == Head(k_points)
         IN  << Line(<<FmtQuotient(k[1]), " ", FmtQuotient(k[2]), " ",
                       FmtQuotient(k[3]), " ", FmtQuotient(weight)>>) >>
             \o UniformLines(Tail(k_points), weight)

RECURSIVE PanelLines(_, _)
PanelLines(panel_bounds, nk_per_panel) ==
    IF panel_bounds = <<>> THEN <<>>
    ELSE LET k == Head(panel_bounds)
         IN  << Line(<<FmtDisplay(k[1]), " ", FmtDisplay(k[2]), " ",
                       FmtDisplay(k[3]), " ", FmtInt(nk_per_panel)>>) >>
             \o PanelLines(Tail(panel_bounds), nk_per_panel)

make_k_points(inp) ==
    LET kp == inp.k_points
        header == << Line(<<"K_POINTS", " ", KPointsValue(kp)>>) >>
        body ==
            CASE kp.kind = "Crystal" ->
                    << Line(<<FmtInt(Len(kp.k_points))>>) >> \o CrystalLines(kp.k_points)
              [] kp.kind = "CrystalUniform" ->
                    LET k_points == generate_uniform_kpoints(kp.nk)
                        weight == Quotient(1, Len(k_points))
                    IN  << Line(<<FmtInt(Len(k_points))>>) >>
                        \o UniformLines(k_points, weight)
              [] kp.kind = "Automatic" ->
                    LET sk_str == IF IsSome(kp.sk) THEN render_bool_list(kp.sk[1])
                                  ELSE render_bool_list(<<FALSE, FALSE, FALSE>>)
                    IN  << Line(<<FmtInt(kp.nk[1]), " ", FmtInt(kp.nk[2]), " ",
                                  FmtInt(kp.nk[3]), " ">> \o sk_str) >>
              [] kp.kind = "CrystalBands" ->
                    << Line(<<FmtInt(Len(kp.panel_bounds))>>) >>
                    \o PanelLines(kp.panel_bounds, kp.nk_per_panel)
    IN  JoinNewline(header \o body)

\* The sections with the positions in front of the cell.
InputSections_positions_first(inp, control) ==
    LET cell == make_cell(inp)
    IN  <<control, make_system(inp), make_electrons(inp), make_species(inp),
          make_positions(inp)>>
        \o (IF IsSome(cell) THEN <<cell[1]>> ELSE <<>>)
        \o <<make_k_points(inp)>>

\* The sections of a pw input file in the order make_input_file joins them.
InputSections(inp, control) ==
    LET cell == make_cell(inp)
    IN  <<control, make_system(inp), make_electrons(inp), make_species(inp)>>
        \o (IF IsSome(cell) THEN <<cell[1]>> ELSE <<>>)
        \o <<make_positions(inp), make_k_points(inp)>>

\* make_input_file, rendering the control group before it validates.
pw_make_input_file_control_first(inp) ==
    LET validated == validate(inp)
        control == make_control(inp)
    IN  IF IsErr(control) THEN control
        ELSE IF IsErr(validated) THEN Err(InputError(validated[2]))
        ELSE Ok(JoinNewline(InputSections(inp, control[2])))

\* make_input_file of pw with a hidden state: it does not validate again an
\* input that the call before it has validated.
pw_make_input_file_validating_once(inp) ==
    LET validated == validate(inp)
        control == make_control(inp)
    IN  IF result.op # "pw::input::validate" /\ IsErr(validated)
        THEN Err(InputError(validated[2]))
        ELSE IF IsErr(control) THEN control
        ELSE Ok(JoinNewline(InputSections(inp, control[2])))

pw_make_input_file(inp) ==
    LET validated == validate(inp)
        control == make_control(inp)
    IN  IF IsErr(validated) THEN Err(InputError(validated[2]))
        ELSE IF IsErr(control) THEN control
        ELSE Ok(JoinNewline(InputSections(inp, control[2])))


--------------------------------------------------------------------------
(* serialize_util, bands::serialize, pw2wannier90::serialize. *)

\* push_bool_field, treating Some(false) like None.
push_bool_field_false_as_none(ls, name, b) ==
    IF IsSome(b) /\ b[1]
    THEN Append(ls, Line(<<"    ", name, "=", ".true.", ",">>))
    ELSE ls

push_bool_field(ls, name, b) ==
    IF IsSome(b)
    THEN LET val == IF b[1] THEN ".true." ELSE ".false."
         IN  Append(ls, Line(<<"    ", name, "=", val, ",">>))
    ELSE ls

Filband == <<"Filband">>

\* make_input_file of bands, converting filband before out_dir.
bands_make_input_file_filband_first(inp) ==
    LET outBad == IsSome(inp.out_dir) /\ IsNone(to_str(inp.out_dir[1]))
        filBad == IsSome(inp.filband) /\ IsNone(to_str(inp.filband[1]))
        l0 == << Line(<<" &bands">>) >>
        l1 == IF IsSome(inp.prefix)
              THEN Append(l0, Line(<<"   ", "prefix", "=", "'", inp.prefix[1], "'", ",">>))
              ELSE l0
        l2 == IF IsSome(inp.out_dir) /\ ~outBad
              THEN Append(l1, Line(<<"   ", "out_dir", "=", "'",
                                     to_str(inp.out_dir[1])[1], "'", ",">>))
              ELSE l1
        l3 == IF IsSome(inp.filband) /\ ~filBad
              THEN Append(l2, Line(<<"   ", "filband", "=", "'",
                                     to_str(inp.filband[1])[1], "'", ",">>))
              ELSE l2
        l4 == push_bool_field(l3, "lsym", Some(inp.lsym))
    IN  IF filBad THEN Err(Filband)
        ELSE IF outBad THEN Err(OutDir)
        ELSE Ok(JoinNewline(Append(l4, Line(<<" /">>))))

bands_make_input_file(inp) ==
    LET l0 == << Line(<<" &bands">>) >>
        l1 == IF IsSome(inp.prefix)
              THEN Append(l0, Line(<<"   ", "prefix", "=", "'", inp.prefix[1], "'", ",">>))
              ELSE l0
        outBad == IsSome(inp.out_dir) /\ IsNone(to_str(inp.out_dir[1]))
        l2 == IF IsSome(inp.out_dir) /\ ~outBad
              THEN Append(l1, Line(<<"   ", "out_dir", "=", "'",
                                     to_str(inp.out_dir[1])[1], "'", ",">>))
              ELSE l1
        filBad == IsSome(inp.filband) /\ IsNone(to_str(inp.filband[1]))
        l3 == IF IsSome(inp.filband) /\ ~filBad
              THEN Append(l2, Line(<<"   ", "filband", "=", "'",
                                     to_str(inp.filband[1])[1], "'", ",">>))
              ELSE l2
        l4 == push_bool_field(l3, "lsym", Some(inp.lsym))
    IN  IF outBad THEN Err(OutDir)
        ELSE IF filBad THEN Err(Filband)
        ELSE Ok(JoinNewline(Append(l4, Line(<<" /">>))))

\* make_input_file of pw2wannier90, pushing seedname before out_dir.
pw2wannier90_make_input_file_seedname_first(inp) ==
    LET l0 == << Line(<<" &inputpp">>),
                 Line(<<"   ", "prefix", "=", "'", inp.prefix, "'", ",">>),
                 Line(<<"   ", "seedname", "=", "'", inp.seedname, "'", ",">>) >>
        outBad == IsSome(inp.out_dir) /\ IsNone(to_str(inp.out_dir[1]))
        l2 == IF IsSome(inp.out_dir) /\ ~outBad
              THEN Append(l0, Line(<<"   ", "out_dir", "=", "'",
                                     to_str(inp.out_dir[1])[1], "'", ",">>))
              ELSE l0
        l3 == push_bool_field(l2, "write_unk", Some(inp.write_unk))
        l4 == push_bool_field(l3, "write_amn", Some(inp.write_amn))
        l5 == push_bool_field(l4, "write_mmn", Some(inp.write_mmn))
        l6 == push_bool_field(l5, "write_spn", Some(inp.write_spn))
    IN  IF outBad THEN Err(OutDir)
        ELSE Ok(JoinNewline(Append(l6, Line(<<" /">>))))

pw2wannier90_make_input_file(inp) ==
    LET l0 == << Line(<<" &inputpp">>),
                 Line(<<"   ", "prefix", "=", "'", inp.prefix, "'", ",">>) >>
        outBad == IsSome(inp.out_dir) /\ IsNone(to_str(inp.out_dir[1]))
        l1 == IF IsSome(inp.out_dir) /\ ~outBad
              THEN Append(l0, Line(<<"   ", "out_dir", "=", "'",
                                     to_str(inp.out_dir[1])[1], "'", ",">>))
              ELSE l0
        l2 == Append(l1, Line(<<"   ", "seedname", "=", "'", inp.seedname, "'", ",">>))
        l3 == push_bool_field(l2, "write_unk", Some(inp.write_unk))
        l4 == push_bool_field(l3, "write_amn", Some(inp.write_amn))
        l5 == push_bool_field(l4, "write_mmn", Some(inp.write_mmn))
        l6 == push_bool_field(l5, "write_spn", Some(inp.write_spn))
    IN  IF outBad THEN Err(OutDir)
        ELSE Ok(JoinNewline(Append(l6, Line(<<" /">>))))

--------------------------------------------------------------------------
(* Writing the file.  The file system is the content of the file at         *)
(* file_path: None when there is no such file, Some(text) otherwise.  What   *)
(* the operating system does is the argument io: File::create fails          *)
(* (io.create = FALSE), or it succeeds and write_all puts io.written lines   *)
(* of the text into the file before it fails, or all of them.                *)

IoOutcomes(text) ==
    {[create |-> FALSE, written |-> 0]}
    \cup {[create |-> TRUE, written |-> k] : k \in 0..Len(text)}

\* The content of a file into which the first k lines of text were written.
Written(text, k) == IF k = 0 THEN << <<>> >> ELSE SubSeq(text, 1, k)

\* let mut file = File::create(file_path)?; file.write_all(text)?; Ok(())
CreateAndWrite(text, file, io) ==
    IF ~io.create THEN [val |-> Err(Io("create")), fs |-> file]
    ELSE IF io.written < Len(text)
    THEN [val |-> Err(Io("write_all")), fs |-> Some(Written(text, io.written))]
    ELSE [val |-> Ok(Unit), fs |-> Some(text)]

pw_write_input_file(inp, file, io) ==
    LET input_text == pw_make_input_file(inp)
    IN  IF IsErr(input_text) THEN [val |-> input_text, fs |-> file]
        ELSE CreateAndWrite(input_text[2], file, io)

\* write_input_file of bands, creating the file before it renders the text.
bands_write_input_file_create_first(inp, file, io) ==
    LET input_text == bands_make_input_file(inp)
    IN  IF IsErr(input_text) THEN [val |-> input_text, fs |-> Some(Written(<<>>, 0))]
        ELSE CreateAndWrite(input_text[2], file, io)

bands_write_input_file(inp, file, io) ==
    LET input_text == bands_make_input_file(inp)
    IN  IF IsErr(input_text) THEN [val |-> input_text, fs |-> file]
        ELSE CreateAndWrite(input_text[2], file, io)

pw2wannier90_write_input_file(inp, file, io) ==
    LET input_text == pw2wannier90_make_input_file(inp)
    IN  IF IsErr(input_text) THEN [val |-> input_text, fs |-> file]
        ELSE CreateAndWrite(input_text[2], file, io)

\* The outcomes the operating system can produce for a write of this input:
\* all of them when there is a text to write, none to choose when rendering fails.
IoChoices(rendered) ==
    IF IsOk(rendered) THEN IoOutcomes(rendered[2])
    ELSE {[create |-> FALSE, written |-> 0]}


--------------------------------------------------------------------------
(* The inputs: the values of the types of pw::input, bands::input and       *)
(* pw2wannier90::input that the model draws from.                           *)

Opt(S) == {None} \cup {Some(x) : x \in S}

SeqsUpTo(S, n) == UNION {[1..k -> S] : k \in 0..n}

FloatVals == {-1, 0, 1}

GoodPath == [utf8 |-> TRUE, s |-> "./dir"]

BadPath == [utf8 |-> FALSE, s |-> "?"]

Paths == {GoodPath, BadPath}

Scf(conv_thr) == [kind |-> "Scf", conv_thr |-> conv_thr]

Nscf(diago_thr_init, nbnd, nosym) ==
    [kind |-> "Nscf", diago_thr_init |-> diago_thr_init, nbnd |-> nbnd, nosym |-> nosym]

Bands(diago_thr_init, nbnd, nosym) ==
    [kind |-> "Bands", diago_thr_init |-> diago_thr_init, nbnd |-> nbnd, nosym |-> nosym]

Calculations(thrs, nbnds, nosyms) ==
    {Scf(x) : x \in thrs}
    \cup {Nscf(x, nb, ns) : x \in thrs, nb \in nbnds, ns \in nosyms}
    \cup {Bands(x, nb, ns) : x \in thrs, nb \in nbnds, ns \in nosyms}

Controls(restarts, disk_ios, wf_collects, pseudo_dirs, out_dirs, prefixes) ==
    [restart_mode : restarts, disk_io : disk_ios, wf_collect : wf_collects,
     pseudo_dir : pseudo_dirs, out_dir : out_dirs, prefix : prefixes]

Smearing(kind, degauss) == [kind |-> "Smearing", smearing |-> kind, degauss |-> degauss]

SmearingKinds == {"Gaussian", "MethfesselPaxton", "MarzariVanderbilt", "FermiDirac"}

OtherOccupations ==
    {[kind |-> k] : k \in {"Tetrahedra", "TetrahedraLin", "TetrahedraOpt", "Fixed"}}

SpinTypes ==
    {[kind |-> "NonPolarized"], [kind |-> "CollinearPolarized"]}
    \cup {[kind |-> "Noncollinear", spin_orbit |-> b] : b \in BOOLEAN}

Free(cell) == [kind |-> "Free", cell |-> cell]

Cell(units) == [units |-> units, cell |-> << <<1, 0, 0>>, <<0, 1, 0>>, <<0, 0, 1>> >>]

Systems(units, alats, ecutwfcs, ecutrhos, occs, spins) ==
    {[ibrav |-> Free(Cell(u)), alat |-> a, ecutwfc |-> w, ecutrho |-> r,
      occupations |-> o, spin_type |-> sp] :
        u \in units, a \in alats, w \in ecutwfcs, r \in ecutrhos, o \in occs, sp \in spins}

TeField(dipfield, edir, eamp) ==
    [dipfield |-> dipfield, edir |-> edir, emaxpos |-> 1, eopreg |-> 0, eamp |-> eamp]

Efields == {TeField(d, e, a) : d \in BOOLEAN, e \in {"D1", "D2", "D3"}, a \in {1}}

ElectronsVals ==
    [startingwfc : Opt({"Atomic", "AtomicPlusRandom", "Random", "File"}),
     diagonalization : Opt({"David", "Cg"})]

Species(label, mass) ==
    [label |-> label, mass |-> mass, pseudopotential_filename |-> "pp.UPF"]

SpeciesVals == {Species("Fe", -1), Species("Fe", 1), Species("O", 0), Species("O", 1)}

ValidSpeciesVals == {sp \in SpeciesVals : sp.mass > 0}

AtomCoordinate(species, r, if_pos) == [species |-> species, r |-> r, if_pos |-> if_pos]

CoordinateVals ==
    {AtomCoordinate("Fe", <<0, 0, 0>>, None),
     AtomCoordinate("O", <<1, 0, -1>>, Some(<<TRUE, FALSE, TRUE>>))}

CoordinateTypes ==
    {"AlatCartesian", "BohrCartesian", "AngstromCartesian", "Crystal", "CrystalSG"}

Positions(types, maxAtoms) ==
    [coordinate_type : types, coordinates : SeqsUpTo(CoordinateVals, maxAtoms)]

Grids == [1..3 -> 0..MaxNk]

KPointsVals ==
    {[kind |-> "Crystal", k_points |-> ks] :
        ks \in SeqsUpTo({<<0, 0, 0, 1>>, <<1, 0, -1, 1>>}, MaxNk)}
    \cup {[kind |-> "CrystalUniform", nk |-> nk] : nk \in Grids}
    \cup {[kind |-> "Automatic", nk |-> nk, sk |-> sk] :
            nk \in {<<1, 1, 1>>, <<MaxNk, 1, MaxNk>>},
            sk \in Opt({<<FALSE, FALSE, FALSE>>, <<TRUE, FALSE, TRUE>>})}
    \cup {[kind |-> "CrystalBands", nk_per_panel |-> n, panel_bounds |-> pb] :
            n \in {1, MaxNk},
            pb \in SeqsUpTo({<<0, 0, 0>>, <<1, 0, -1>>}, MaxNk)}

\* The input of tests/pw_input.rs, with the sample values of the model.
DefaultCalculation == Scf(1)

DefaultControl ==
    [restart_mode |-> None, disk_io |-> Some("Low"), wf_collect |-> None,
     pseudo_dir |-> None, out_dir |-> None, prefix |-> None]

DefaultSystem ==
    [ibrav |-> Free(Cell("Alat")), alat |-> 1, ecutwfc |-> 1, ecutrho |-> 1,
     occupations |-> [kind |-> "Tetrahedra"], spin_type |-> None]

DefaultElectrons == [startingwfc |-> None, diagonalization |-> None]

DefaultSpecies == <<Species("Fe", 1)>>

DefaultPositions ==
    [coordinate_type |-> "Crystal",
     coordinates |-> <<AtomCoordinate("Fe", <<0, 0, 0>>, None)>>]

DefaultKPoints == [kind |-> "Automatic", nk |-> <<1, 1, 1>>, sk |-> None]

Inputs(calcs, controls, systems, efields, electrons, species, positions, kpoints) ==
    [calculation : calcs, control : controls, system : systems, efield : efields,
     electrons : electrons, species : species, atomic_positions : positions,
     k_points : kpoints]

\* Every combination of the fields validate reads.
ValidateInputs ==
    Inputs(Calculations(FloatVals, {None}, {None}), {DefaultControl},
           Systems({"Alat"}, FloatVals, FloatVals, FloatVals,
                   {Smearing("Gaussian", x) : x \in FloatVals}
                   \cup {[kind |-> "Tetrahedra"]}, {None}),
           {None}, {DefaultElectrons}, SeqsUpTo(SpeciesVals, MaxSpecies),
           {DefaultPositions}, {DefaultKPoints})

\* Valid and invalid inputs with every combination of the two paths.
PathInputs ==
    Inputs(Calculations(FloatVals, {None}, {None}),
           Controls({None}, {None}, {None}, Opt(Paths), Opt(Paths), {None}),
           Systems({"Alat"}, FloatVals, {1}, FloatVals, {[kind |-> "Tetrahedra"]}, {None}),
           {None}, {DefaultElectrons}, {DefaultSpecies, <<Species("Fe", -1)>>},
           {DefaultPositions}, {DefaultKPoints})

\* Every combination of the fields of the control group, with and without Efield.
ControlInputs ==
    Inputs({DefaultCalculation},
           Controls(Opt({"FromScratch", "Restart"}),
                    Opt({"Low", "Medium", "High", "NoDiskIO"}), Opt(BOOLEAN),
                    Opt(Paths), Opt(Paths), Opt({"pre"})),
           {DefaultSystem}, {None, Some(TeField(TRUE, "D1", 1)), Some(TeField(FALSE, "D3", 1))},
           {DefaultElectrons}, {DefaultSpecies}, {DefaultPositions}, {DefaultKPoints})

\* Every combination of the optional fields of the system group.
SystemInputs ==
    Inputs({DefaultCalculation}, {DefaultControl},
           Systems({"Bohr", "Angstrom", "Alat"}, {1}, {1}, {1},
                   {Smearing(k, 1) : k \in SmearingKinds} \cup OtherOccupations,
                   Opt(SpinTypes)),
           Opt(Efields), {DefaultElectrons}, {DefaultSpecies}, {DefaultPositions},
           {DefaultKPoints})

\* Every combination of the fields of the electrons group and the calculation.
ElectronsInputs ==
    Inputs(Calculations({1}, Opt({4}), Opt(BOOLEAN)), {DefaultControl}, {DefaultSystem},
           {None, Some(TeField(TRUE, "D2", 1))}, ElectronsVals, {DefaultSpecies},
           {DefaultPositions}, {DefaultKPoints})

\* Every combination of species and positions, every k-points card for two
\* species and two atoms, and every coordinate type.
CardInputs ==
    Inputs({DefaultCalculation}, {DefaultControl}, {DefaultSystem}, {None},
           {DefaultElectrons}, SeqsUpTo(ValidSpeciesVals, MaxSpecies),
           Positions({"Crystal"}, MaxAtoms), {DefaultKPoints})
    \cup Inputs({DefaultCalculation}, {DefaultControl}, {DefaultSystem}, {None},
                {DefaultElectrons}, {<<Species("Fe", 1), Species("O", 1)>>},
                {[coordinate_type |-> "Crystal",
                  coordinates |-> <<AtomCoordinate("Fe", <<0, 0, 0>>, None),
                                    AtomCoordinate("O", <<1, 0, -1>>,
                                                   Some(<<TRUE, FALSE, TRUE>>))>>]},
                KPointsVals)
    \cup Inputs({DefaultCalculation}, {DefaultControl}, {DefaultSystem}, {None},
                {DefaultElectrons}, {DefaultSpecies}, Positions(CoordinateTypes, 1),
                {DefaultKPoints})

\* Inputs that violate every subset of the rules of validate.
DisplayInputs ==
    Inputs(Calculations({0, 1}, {None}, {None}), {DefaultControl},
           Systems({"Alat"}, {0, 1}, {-1, 1}, {-1, 1},
                   {Smearing("Gaussian", 0), [kind |-> "Tetrahedra"]}, {None}),
           {None}, {DefaultElectrons}, SeqsUpTo(SpeciesVals, MaxSpecies),
           {DefaultPositions}, {DefaultKPoints})

\* Every combination of the fields that have no line in the text: nbnd and
\* nosym of the calculation, the kind and the degauss of a smearing.
UnrenderedInputs ==
    Inputs(Calculations({1}, Opt({4}), Opt(BOOLEAN)), {DefaultControl},
           Systems({"Alat"}, {1}, {1}, {1},
                   {Smearing(k, x) : k \in SmearingKinds, x \in {1, 2}}
                   \cup {[kind |-> "Tetrahedra"]}, {None}),
           {None}, {DefaultElectrons}, {DefaultSpecies}, {DefaultPositions},
           {DefaultKPoints})

PwInputs ==
    ValidateInputs \cup PathInputs \cup ControlInputs \cup SystemInputs
    \cup ElectronsInputs \cup CardInputs \cup UnrenderedInputs

BandsInputs ==
    [prefix : Opt({"pre"}), out_dir : Opt(Paths), filband : Opt(Paths), lsym : BOOLEAN]

Pw2wannier90Inputs ==
    [prefix : {"pre"}, out_dir : Opt(Paths), seedname : {"seed"}, write_unk : BOOLEAN,
     write_amn : BOOLEAN, write_mmn : BOOLEAN, write_spn : BOOLEAN]

\* The file at file_path before the first call: absent, or left by someone else.
OldFile == Some(JoinNewline(<< Line(<<"old">>) >>))

FieldNames == {"wf_collect", "lsym", "write_unk"}


--------------------------------------------------------------------------
(* The state machine.  prog names the program whose Input the caller holds  *)
(* in input; result is the last call and what it returned; fs is the file   *)
(* at file_path; lines is the Vec<String> push_bool_field is applied to;    *)
(* renderings is a history variable: what the caller's first two calls of   *)
(* make_input_file returned, in the order of the calls.                     *)

NoResult == [op |-> "none", val |-> Unit]

Call(op, val) == [op |-> op, val |-> val]

\* The history of make_input_file after a call that returned val.
Remember(history, val) == IF Len(history) < 2 THEN Append(history, val) ELSE history

PwValidate ==
    /\ prog = "pw"
    /\ result' = Call("pw::input::validate", validate(input))
    /\ UNCHANGED <<prog, input, fs, lines, renderings>>

PwMakeInputFile ==
    /\ prog = "pw"
    /\ result' = Call("pw::serialize::make_input_file", pw_make_input_file(input))
    /\ renderings' = Remember(renderings, pw_make_input_file(input))
    /\ UNCHANGED <<prog, input, fs, lines>>

PwWriteInputFile ==
    /\ prog = "pw"
    /\ \E io \in IoChoices(pw_make_input_file(input)) :
          LET out == pw_write_input_file(input, fs, io)
          IN  /\ result' = Call("pw::serialize::write_input_file", out.val)
              /\ fs' = out.fs
    /\ UNCHANGED <<prog, input, lines, renderings>>

BandsMakeInputFile ==
    /\ prog = "bands"
    /\ result' = Call("bands::serialize::make_input_file", bands_make_input_file(input))
    /\ renderings' = Remember(renderings, bands_make_input_file(input))
    /\ UNCHANGED <<prog, input, fs, lines>>

BandsWriteInputFile ==
    /\ prog = "bands"
    /\ \E io \in IoChoices(bands_make_input_file(input)) :
          LET out == bands_write_input_file(input, fs, io)
          IN  /\ result' = Call("bands::serialize::write_input_file", out.val)
              /\ fs' = out.fs
    /\ UNCHANGED <<prog, input, lines, renderings>>

Pw2wannier90MakeInputFile ==
    /\ prog = "pw2wannier90"
    /\ result' = Call("pw2wannier90::serialize::make_input_file",
                      pw2wannier90_make_input_file(input))
    /\ renderings' = Remember(renderings, pw2wannier90_make_input_file(input))
    /\ UNCHANGED <<prog, input, fs, lines>>

Pw2wannier90WriteInputFile ==
    /\ prog = "pw2wannier90"
    /\ \E io \in IoChoices(pw2wannier90_make_input_file(input)) :
          LET out == pw2wannier90_write_input_file(input, fs, io)
          IN  /\ result' = Call("pw2wannier90::serialize::write_input_file", out.val)
              /\ fs' = out.fs
    /\ UNCHANGED <<prog, input, lines, renderings>>

\* A call of the shared push_bool_field on lines.
PushBoolField ==
    /\ Len(lines) < MaxLines
    /\ \E name \in FieldNames, b \in Opt(BOOLEAN) :
          /\ lines' = push_bool_field(lines, name, b)
          /\ result' = [op |-> "serialize_util::push_bool_field", name |-> name, b |-> b]
    /\ UNCHANGED <<prog, input, fs, renderings>>

\* A call of the pw renderer's push_bool_field on lines.
PwPushBoolField ==
    /\ Len(lines) < MaxLines
    /\ \E name \in FieldNames, b \in Opt(BOOLEAN) :
          /\ lines' = pw_push_bool_field(lines, name, b)
          /\ result' = [op |-> "pw::serialize::push_bool_field", name |-> name, b |-> b]
    /\ UNCHANGED <<prog, input, fs, renderings>>

\* The caller formats the error of the last call of pw with "{}".
PwDisplay ==
    /\ prog = "pw"
    /\ result.op \in {"pw::input::validate", "pw::serialize::make_input_file",
                      "pw::serialize::write_input_file"}
    /\ IsErr(result.val)
    /\ result' = [op |-> "fmt::Display",
                  val |-> IF result.op = "pw::input::validate"
                          THEN ErrorList_fmt(result.val[2])
                          ELSE serialize_Error_fmt(result.val[2]),
                  of |-> result]
    /\ UNCHANGED <<prog, input, fs, lines, renderings>>

\* The three programs with their files.
Init ==
    /\ \/ prog = "pw" /\ input \in PathInputs
       \/ prog = "bands" /\ input \in BandsInputs
       \/ prog = "pw2wannier90" /\ input \in Pw2wannier90Inputs
    /\ result = NoResult
    /\ fs \in {None, OldFile}
    /\ lines = <<>>
    /\ renderings = <<>>

Next ==
    \/ PwValidate
    \/ PwMakeInputFile
    \/ PwWriteInputFile
    \/ BandsMakeInputFile
    \/ BandsWriteInputFile
    \/ Pw2wannier90MakeInputFile
    \/ Pw2wannier90WriteInputFile

Spec == Init /\ [][Next]_vars

\* validate and make_input_file of pw as functions of the input.
InitMake ==
    /\ prog = "pw"
    /\ input \in PwInputs
    /\ result = NoResult
    /\ fs = None
    /\ lines = <<>>
    /\ renderings = <<>>

NextMake == PwValidate \/ PwMakeInputFile

SpecMake == InitMake /\ [][NextMake]_vars

\* validate and make_input_file of pw and the messages of their errors.
InitDisplay ==
    /\ prog = "pw"
    /\ input \in DisplayInputs
    /\ result = NoResult
    /\ fs = None
    /\ lines = <<>>
    /\ renderings = <<>>

NextDisplay == PwValidate \/ PwMakeInputFile \/ PwDisplay

SpecDisplay == InitDisplay /\ [][NextDisplay]_vars

\* The two copies of push_bool_field as functions of their arguments.
InitPush ==
    /\ prog = "none"
    /\ input = Unit
    /\ result = NoResult
    /\ fs = None
    /\ lines \in {<<>>, << Line(<<" &control">>) >>}
    /\ renderings = <<>>

NextPush == PushBoolField \/ PwPushBoolField

SpecPush == InitPush /\ [][NextPush]_vars


--------------------------------------------------------------------------
(* Properties of validate. *)

Count(list, e) == Cardinality({i \in DOMAIN list : list[i] = e})

Elements(list) == {list[i] : i \in DOMAIN list}

Threshold(calculation) ==
    IF calculation.kind = "Scf" THEN calculation.conv_thr
    ELSE calculation.diago_thr_init

ThresholdTag(calculation) ==
    IF calculation.kind = "Scf" THEN "ConvThr" ELSE "DiagoThrInit"

OffendingSpecies(inp) == {i \in DOMAIN inp.species : inp.species[i].mass <= 0}

\* How many times the rules say the error e is due for the input.
Due(inp, e) ==
    (IF inp.system.alat <= 0 /\ e = <<"LatticeConstant", inp.system.alat>>
     THEN 1 ELSE 0)
    + (IF Threshold(inp.calculation) <= 0
          /\ e = <<ThresholdTag(inp.calculation), Threshold(inp.calculation)>>
       THEN 1 ELSE 0)
    + (IF inp.system.ecutwfc <= 0 /\ e = <<"Ecutwfc", inp.system.ecutwfc>>
       THEN 1 ELSE 0)
    + (IF inp.system.ecutrho <= 0 /\ e = <<"Ecutrho", inp.system.ecutrho>>
       THEN 1 ELSE 0)
    + (IF inp.system.occupations.kind = "Smearing"
          /\ inp.system.occupations.degauss <= 0
          /\ e = <<"Smearing", inp.system.occupations.degauss>>
       THEN 1 ELSE 0)
    + Cardinality({i \in OffendingSpecies(inp) :
                      e = <<"Mass", inp.species[i].label, inp.species[i].mass>>})

\* Every error value over the sample values.
AllErrors ==
    {<<t, x>> : t \in {"LatticeConstant", "ConvThr", "DiagoThrInit", "Ecutwfc",
                       "Ecutrho", "Smearing"}, x \in FloatVals}
    \cup {<<"Mass", l, x>> : l \in {"Fe", "O"}, x \in FloatVals}

\* How many rules the input violates.
ViolationCount(inp) ==
    (IF inp.system.alat <= 0 THEN 1 ELSE 0)
    + (IF Threshold(inp.calculation) <= 0 THEN 1 ELSE 0)
    + (IF inp.system.ecutwfc <= 0 THEN 1 ELSE 0)
    + (IF inp.system.ecutrho <= 0 THEN 1 ELSE 0)
    + (IF inp.system.occupations.kind = "Smearing"
          /\ inp.system.occupations.degauss <= 0 THEN 1 ELSE 0)
    + Cardinality(OffendingSpecies(inp))

Validated == result.op = "pw::input::validate"

\* The errors of a validate or render result: the list of an Err, none for Ok.
ErrsOf(val) == IF IsErr(val) THEN val[2].errs ELSE <<>>

\* C1: validate never short-circuits: the list it returns holds exactly one
\* error per violated rule (one per offending species for the masses), each
\* carrying the offending value (and the label for a mass); the result is
\* Ok(()) exactly when no rule is violated, so the list of an Err is not empty.
C1_ValidateAccumulatesEveryViolation ==
    Validated =>
        /\ Elements(ErrsOf(result.val)) \subseteq AllErrors
        /\ \A e \in AllErrors : Count(ErrsOf(result.val), e) = Due(input, e)
        /\ Len(ErrsOf(result.val)) = ViolationCount(input)
        /\ (result.val = Ok(Unit)) <=> (ViolationCount(input) = 0)
        /\ IsErr(result.val) => Len(result.val[2].errs) > 0
        /\ IsErr(result.val) \/ result.val = Ok(Unit)

\* C1 witness: validate has run on an input that violates the alat, ecutrho
\* and smearing rules and has two offending species.
C1_Witness ==
    /\ Validated
    /\ IsErr(result.val)
    /\ input.system.alat <= 0
    /\ input.system.ecutrho <= 0
    /\ input.system.occupations.kind = "Smearing"
    /\ input.system.occupations.degauss <= 0
    /\ Cardinality(OffendingSpecies(input)) = 2
    /\ Len(result.val[2].errs) >= 5

Rank(e) ==
    CASE e[1] = "LatticeConstant" -> 1
      [] e[1] \in {"ConvThr", "DiagoThrInit"} -> 2
      [] e[1] = "Ecutwfc" -> 3
      [] e[1] = "Ecutrho" -> 4
      [] e[1] = "Smearing" -> 5
      [] e[1] = "Mass" -> 6

IsMassError(e) == e[1] = "Mass"

HasOffendingMass(sp) == sp.mass <= 0

\* The mass errors the rules ask for, in the order of the species sequence.
DueMassErrors(inp) ==
    LET off == SelectSeq(inp.species, HasOffendingMass)
    IN  [i \in 1..Len(off) |-> <<"Mass", off[i].label, off[i].mass>>]

\* C2: the errors validate returns are in the fixed check order: lattice
\* constant, threshold, ecutwfc, ecutrho, smearing, then the mass errors in
\* the order of the species; an input that violates exactly the alat and the
\* ecutwfc rules gets the list of those two errors, alat first.
C2_ErrorsInCheckOrder ==
    Validated =>
        LET errs == ErrsOf(result.val)
        IN  /\ \A i, j \in DOMAIN errs :
                  i < j => \/ Rank(errs[i]) < Rank(errs[j])
                           \/ Rank(errs[i]) = 6 /\ Rank(errs[j]) = 6
            /\ SelectSeq(errs, IsMassError) = DueMassErrors(input)
            /\ (/\ input.system.alat <= 0
                /\ input.system.ecutwfc <= 0
                /\ ViolationCount(input) = 2)
               => errs = << <<"LatticeConstant", input.system.alat>>,
                            <<"Ecutwfc", input.system.ecutwfc>> >>

\* C2 witness: validate has run on an input that violates the alat, the
\* ecutwfc and the ecutrho rule and has two offending species with
\* different labels.
C2_Witness ==
    /\ Validated
    /\ input.system.alat <= 0
    /\ input.system.ecutwfc <= 0
    /\ input.system.ecutrho <= 0
    /\ Len(input.species) = 2
    /\ OffendingSpecies(input) = {1, 2}
    /\ input.species[1].label # input.species[2].label
    /\ Len(ErrsOf(result.val)) >= 5

FourPositive(inp) ==
    /\ inp.system.alat > 0
    /\ inp.system.ecutwfc > 0
    /\ inp.system.ecutrho > 0
    /\ Threshold(inp.calculation) > 0

\* C3 as stated: positive alat, ecutwfc, ecutrho and threshold make validate
\* return Ok(()).
C3_FourPositiveSuffice ==
    (Validated /\ FourPositive(input)) => result.val = Ok(Unit)

\* C3 as amended: positive alat, ecutwfc, ecutrho and threshold, a positive
\* degauss when occupations is Smearing, and a positive mass for every
\* species make validate return Ok(()).
C3_AllPositiveSuffice ==
    (/\ Validated
     /\ FourPositive(input)
     /\ input.system.occupations.kind = "Smearing"
            => input.system.occupations.degauss > 0
     /\ \A i \in DOMAIN input.species : input.species[i].mass > 0)
    => result.val = Ok(Unit)

\* C3 witness: validate has returned Ok(()) for an input with smearing and
\* two species.
C3_Witness ==
    /\ Validated
    /\ FourPositive(input)
    /\ input.system.occupations.kind = "Smearing"
    /\ input.system.occupations.degauss > 0
    /\ Len(input.species) = 2
    /\ \A i \in DOMAIN input.species : input.species[i].mass > 0
    /\ result.val = Ok(Unit)


--------------------------------------------------------------------------
(* Properties of the pw renderer. *)

Made == result.op = "pw::serialize::make_input_file"

Rendered == Made /\ IsOk(result.val)

\* C4: make_input_file validates before it renders: when a rule is
\* violated it returns Err(Error::Input(list)) with the complete list of
\* validate and no text, also when pseudo_dir or out_dir is not UTF-8; an
\* input with ecutrho <= 0 fails this way.
C4_ValidationErrorBeforeRendering ==
    (Made /\ ViolationCount(input) > 0) =>
        /\ IsErr(result.val)
        /\ Len(result.val[2]) = 2
        /\ result.val[2][1] = "Input"
        /\ \A e \in AllErrors : Count(result.val[2][2].errs, e) = Due(input, e)
        /\ Len(result.val[2][2].errs) = ViolationCount(input)
        /\ result.val[2][2] = validate(input)[2]

\* C4 witness: make_input_file has returned the validation error for an
\* input with ecutrho <= 0 whose pseudo_dir and out_dir are both not UTF-8.
C4_Witness ==
    /\ Made
    /\ input.system.ecutrho <= 0
    /\ input.control.pseudo_dir = Some(BadPath)
    /\ input.control.out_dir = Some(BadPath)
    /\ IsErr(result.val)
    /\ result.val[2][1] = "Input"
    /\ Len(result.val[2][2].errs) >= 1

GroupHeaders == {" &control", " &system", " &electrons"}

CardHeaders == {"ATOMIC_SPECIES", "CELL_PARAMETERS", "ATOMIC_POSITIONS", "K_POINTS"}

IsHeader(line) == Len(line) >= 1 /\ line[1] \in GroupHeaders \cup CardHeaders

IsTerminator(line) == line = <<" /">>

\* A field line is indent, name, "=", value, ",".
IsField(line) == Len(line) >= 5 /\ line[1] = "    " /\ line[3] = "="

RECURSIVE HeaderIndices(_, _)
HeaderIndices(text, i) ==
    IF i > Len(text) THEN <<>>
    ELSE (IF IsHeader(text[i]) THEN <<i>> ELSE <<>>) \o HeaderIndices(text, i + 1)

\* The sections of a text: each header line with the lines up to the next one.
Sections(text) ==
    LET h == HeaderIndices(text, 1)
    IN  [k \in 1..Len(h) |->
            [header |-> text[h[k]][1],
             body |-> SubSeq(text, h[k] + 1,
                             IF k < Len(h) THEN h[k + 1] - 1 ELSE Len(text))]]

SectionOf(text, header) ==
    LET secs == Sections(text)
    IN  secs[CHOOSE k \in DOMAIN secs : secs[k].header = header]

\* The field lines named name among the lines.
FieldsNamed(ls, name) == {i \in DOMAIN ls : IsField(ls[i]) /\ ls[i][2] = name}

FieldValue(line) == SubSeq(line, 4, Len(line) - 1)

\* C6: a rendered pw text is the sections &control, &system, &electrons,
\* ATOMIC_SPECIES, CELL_PARAMETERS (ibrav is Free), ATOMIC_POSITIONS and
\* K_POINTS in this order, each once and nothing else: the text starts with
\* the first header, each group ends with its terminator, and no card holds
\* a field line or a terminator.
C6_SectionOrder ==
    Rendered =>
        LET text == result.val[2]
            secs == Sections(text)
        IN  /\ [k \in DOMAIN secs |-> secs[k].header]
                 = <<" &control", " &system", " &electrons", "ATOMIC_SPECIES"
                    >> \o (IF input.system.ibrav.kind = "Free"
                           THEN <<"CELL_PARAMETERS">> ELSE <<>>)
                    \o <<"ATOMIC_POSITIONS", "K_POINTS">>
            /\ IsHeader(text[1])
            /\ \A k \in DOMAIN secs :
                  LET body == secs[k].body
                  IN  IF secs[k].header \in GroupHeaders
                      THEN /\ Len(body) >= 1
                           /\ IsTerminator(body[Len(body)])
                           /\ \A i \in 1..(Len(body) - 1) : IsField(body[i])
                      ELSE \A i \in DOMAIN body :
                              ~IsField(body[i]) /\ ~IsTerminator(body[i])

\* C6 witness: a text has been rendered for an input with an Efield, two
\* species and two atoms.
C6_Witness ==
    /\ Rendered
    /\ Len(input.species) = 2
    /\ Len(input.atomic_positions.coordinates) = 2
    /\ input.k_points.kind = "CrystalUniform"
    /\ Len(result.val[2]) > 20


OptionalFieldNames(inp) ==
    (IF IsNone(inp.control.restart_mode) THEN {"restart_mode"} ELSE {})
    \cup (IF IsNone(inp.control.disk_io) THEN {"disk_io"} ELSE {})
    \cup (IF IsNone(inp.control.wf_collect) THEN {"wf_collect"} ELSE {})
    \cup (IF IsNone(inp.control.pseudo_dir) THEN {"pseudo_dir"} ELSE {})
    \cup (IF IsNone(inp.control.out_dir) THEN {"out_dir"} ELSE {})
    \cup (IF IsNone(inp.control.prefix) THEN {"prefix"} ELSE {})
    \cup (IF IsNone(inp.system.spin_type) THEN {"nspin", "noncolin", "lspinorb"} ELSE {})
    \cup (IF IsNone(inp.efield)
          THEN {"tefield", "dipfield", "edir", "emaxpos", "eopreg", "eamp"} ELSE {})
    \cup (IF IsNone(inp.electrons.startingwfc) THEN {"startingwfc"} ELSE {})
    \cup (IF IsNone(inp.electrons.diagonalization) THEN {"diagonalization"} ELSE {})

\* The lines of a section that are neither its header nor its terminator.
Content(sec) == {i \in DOMAIN sec.body : ~IsTerminator(sec.body[i])}

\* Every section of the text holds a line besides its header and terminator.
NoEmptySection(text) ==
    \A k \in DOMAIN Sections(text) : Content(Sections(text)[k]) # {}

\* No optional field of the input that is None has a line in the text.
NoLineForNone(inp, text) ==
    \A name \in OptionalFieldNames(inp) : FieldsNamed(text, name) = {}

\* C7: a rendered pw text has no empty section: every section in it holds at
\* least one field or record line besides its header (and terminator), and no
\* optional field that is None has a line.
C7_NoEmptySection ==
    Rendered =>
        /\ NoEmptySection(result.val[2])
        /\ NoLineForNone(input, result.val[2])

\* C7, the part the code keeps: no optional field that is None has a line,
\* and a section without a line besides its header is ATOMIC_SPECIES of an
\* input without species or ATOMIC_POSITIONS of an input without coordinates.
C7_EmptyOnlyWithoutRecords ==
    Rendered =>
        /\ NoLineForNone(input, result.val[2])
        /\ \A k \in DOMAIN Sections(result.val[2]) :
              LET sec == Sections(result.val[2])[k]
              IN  Content(sec) = {} =>
                     \/ sec.header = "ATOMIC_SPECIES" /\ input.species = <<>>
                     \/ /\ sec.header = "ATOMIC_POSITIONS"
                        /\ input.atomic_positions.coordinates = <<>>

\* The value of the one field line named name in the section, as a sequence
\* of tokens; <<>> when the section has no such line or several.
TheField(sec, name) ==
    IF Cardinality(FieldsNamed(sec.body, name)) = 1
    THEN FieldValue(sec.body[CHOOSE i \in FieldsNamed(sec.body, name) : TRUE])
    ELSE <<>>

\* C8: in a rendered pw text the nat of the system group is the number of
\* coordinates and the number of record lines under ATOMIC_POSITIONS, and
\* ntyp is the number of species and of the record lines under
\* ATOMIC_SPECIES.
C8_CountsAreLengths ==
    Rendered =>
        LET text == result.val[2]
            system == SectionOf(text, " &system")
        IN  /\ TheField(system, "nat")
                 = <<ToString(Len(input.atomic_positions.coordinates))>>
            /\ TheField(system, "nat")
                 = <<ToString(Len(SectionOf(text, "ATOMIC_POSITIONS").body))>>
            /\ TheField(system, "ntyp") = <<ToString(Len(input.species))>>
            /\ TheField(system, "ntyp")
                 = <<ToString(Len(SectionOf(text, "ATOMIC_SPECIES").body))>>

\* C8 witness: a text has been rendered for an input with one species and
\* two atoms.
C8_Witness ==
    /\ Rendered
    /\ Len(input.species) = 1
    /\ Len(input.atomic_positions.coordinates) = 2
    /\ TheField(SectionOf(result.val[2], " &system"), "nat") = <<"2">>
    /\ TheField(SectionOf(result.val[2], " &system"), "ntyp") = <<"1">>

ControlEfieldNames == {"tefield", "dipfield"}

SystemEfieldNames == {"edir", "emaxpos", "eopreg", "eamp"}

\* C9: in a rendered pw text the Efield lines come together or not at all:
\* with Some(TeField) the control group has exactly one tefield line, which
\* is .true., and one dipfield line, the system group has exactly one line
\* each of edir, emaxpos, eopreg and eamp, and neither group has a line of
\* the other; with None the text has none of the six.
C9_EfieldTogetherOrNotAtAll ==
    Rendered =>
        LET text == result.val[2]
            control == SectionOf(text, " &control")
            system == SectionOf(text, " &system")
        IN  IF IsSome(input.efield)
            THEN /\ TheField(control, "tefield") = <<".true.">>
                 /\ TheField(control, "dipfield")
                      = <<IF input.efield[1].dipfield THEN ".true." ELSE ".false.">>
                 /\ \A n \in SystemEfieldNames :
                       Cardinality(FieldsNamed(system.body, n)) = 1
                 /\ \A n \in ControlEfieldNames \cup SystemEfieldNames :
                       Cardinality(FieldsNamed(text, n)) = 1
            ELSE \A n \in ControlEfieldNames \cup SystemEfieldNames :
                    FieldsNamed(text, n) = {}

\* C9 witness: a text has been rendered for an input with an Efield whose
\* dipfield is false.
C9_Witness ==
    /\ Rendered
    /\ IsSome(input.efield)
    /\ ~input.efield[1].dipfield
    /\ FieldsNamed(result.val[2], "eamp") # {}


--------------------------------------------------------------------------
(* Properties of write_input_file and of push_bool_field. *)

WriteOps ==
    {"pw::serialize::write_input_file", "bands::serialize::write_input_file",
     "pw2wannier90::serialize::write_input_file"}

\* The last call was a write_input_file that failed in rendering: with a
\* validation error or a path that is not UTF-8, not with an I/O error.
WriteFailedInRendering ==
    /\ result.op \in WriteOps
    /\ IsErr(result.val)
    /\ result.val[2][1] # "Io"

\* C5: a write_input_file of pw, bands or pw2wannier90 whose rendering fails
\* leaves the file as it was: not created, not truncated, not written.
C5_RenderFailureLeavesFile ==
    [][WriteFailedInRendering' => fs' = fs]_vars

\* C5 witness: the bands write_input_file has failed on a filband that is
\* not UTF-8, and the file that was there before the call is still there.
C5_Witness ==
    /\ result.op = "bands::serialize::write_input_file"
    /\ result.val = Err(<<"Filband">>)
    /\ fs = OldFile

Pushed ==
    result.op \in {"serialize_util::push_bool_field", "pw::serialize::push_bool_field"}

\* C10: push_bool_field leaves lines unchanged for None and appends exactly
\* one line for Some(v), name=.true., or name=.false., , behind the lines
\* that were there, which stay as they were; the copy of the pw renderer and
\* the copy of serialize_util return the same on every argument.
C10_PushBoolField ==
    /\ [][Pushed' =>
            IF IsNone(result'.b) THEN lines' = lines
            ELSE lines' = Append(lines,
                                 << <<"    ", result'.name, "=",
                                      IF result'.b[1] THEN ".true." ELSE ".false.",
                                      ",">> >>)]_vars
    /\ [](\A name \in FieldNames, b \in Opt(BOOLEAN) :
             pw_push_bool_field(lines, name, b) = push_bool_field(lines, name, b))

\* C10 witness: push_bool_field has appended the line of Some(false) behind
\* a line that was there.
C10_Witness ==
    /\ Pushed
    /\ result.b = Some(FALSE)
    /\ Len(lines) = 2
    /\ lines[2] = << <<"    ", result.name, "=", ".false.", ",">> >>


--------------------------------------------------------------------------
(* Properties of the uniform grid of k-points. *)

\* The decimal text of the f64 i / n for naturals i < n or i = 0 < n.
QuotientText(i, n) ==
    LET g == Gcd(i, n)
    IN  IF n \div g = 1 THEN ToString(i \div g)
        ELSE ToString(i \div g) \o "/" \o ToString(n \div g)

\* C11: generate_uniform_kpoints(<<n0, n1, n2>>) returns n0 * n1 * n2 points,
\* the first index slowest and the third fastest, the point of the indices
\* (i0, i1, i2) being (i0/n0, i1/n1, i2/n2) with every coordinate in [0, 1);
\* the K_POINTS card of CrystalUniform is the line of that number N and then
\* N record lines in this order, each with the weight 1/N; the grid
\* <<2, 1, 1>> gives the points (0, 0, 0) and (1/2, 0, 0) with weight 1/2.
C11_UniformGrid ==
    (Rendered /\ input.k_points.kind = "CrystalUniform") =>
        LET nk == input.k_points.nk
            N == nk[1] * nk[2] * nk[3]
            points == generate_uniform_kpoints(nk)
            body == SectionOf(result.val[2], "K_POINTS").body
        IN  /\ Len(points) = N
            /\ \A i0 \in 0..(nk[1] - 1), i1 \in 0..(nk[2] - 1), i2 \in 0..(nk[3] - 1) :
                  LET at == i0 * nk[2] * nk[3] + i1 * nk[3] + i2 + 1
                  IN  /\ points[at][1][1] * nk[1] = i0 * points[at][1][2]
                      /\ points[at][2][1] * nk[2] = i1 * points[at][2][2]
                      /\ points[at][3][1] * nk[3] = i2 * points[at][3][2]
                      /\ \A c \in 1..3 : /\ 0 <= points[at][c][1]
                                         /\ points[at][c][1] < points[at][c][2]
                      /\ body[at + 1] = <<QuotientText(i0, nk[1]), " ",
                                          QuotientText(i1, nk[2]), " ",
                                          QuotientText(i2, nk[3]), " ",
                                          QuotientText(1, N)>>
            /\ Len(body) = N + 1
            /\ body[1] = <<ToString(N)>>
            /\ nk = <<2, 1, 1>> =>
                  body = << <<"2">>, <<"0", " ", "0", " ", "0", " ", "1/2">>,
                            <<"1/2", " ", "0", " ", "0", " ", "1/2">> >>

\* C11 witness: a text has been rendered for the grid <<2, 1, 2>>, whose
\* third point is (1/2, 0, 0).
C11_Witness ==
    /\ Rendered
    /\ input.k_points.kind = "CrystalUniform"
    /\ input.k_points.nk = <<2, 1, 2>>
    /\ Len(SectionOf(result.val[2], "K_POINTS").body) = 5
    /\ SectionOf(result.val[2], "K_POINTS").body[4]
         = <<"1/2", " ", "0", " ", "0", " ", "1/4">>


--------------------------------------------------------------------------
(* Properties of the path fields. *)

MakeOps ==
    {"pw::serialize::make_input_file", "bands::serialize::make_input_file",
     "pw2wannier90::serialize::make_input_file"}

\* The path field is set and is not UTF-8.
NotUtf8(path) == IsSome(path) /\ ~path[1].utf8

\* The path fields of the input that are not UTF-8, in the order in which the
\* renderer of the program converts them, each as the error named after it.
BadPathErrors ==
    CASE prog = "pw" ->
           (IF NotUtf8(input.control.pseudo_dir) THEN <<PseudoDir>> ELSE <<>>)
           \o (IF NotUtf8(input.control.out_dir) THEN <<OutDir>> ELSE <<>>)
      [] prog = "bands" ->
           (IF NotUtf8(input.out_dir) THEN <<OutDir>> ELSE <<>>)
           \o (IF NotUtf8(input.filband) THEN <<Filband>> ELSE <<>>)
      [] prog = "pw2wannier90" ->
           (IF NotUtf8(input.out_dir) THEN <<OutDir>> ELSE <<>>)

\* C12 as stated: a make_input_file on an input with a path field that is
\* not UTF-8 returns the error named after the first such field in rendering
\* order (PseudoDir before OutDir in pw, OutDir before Filband in bands,
\* OutDir in pw2wannier90), not Io and no text.
C12_BadPathNamedError ==
    (result.op \in MakeOps /\ BadPathErrors # <<>>) =>
        result.val = Err(BadPathErrors[1])

\* C12: a make_input_file on an input with a path field that is not UTF-8
\* returns the error named after the first such field in rendering order
\* (PseudoDir before OutDir in pw, OutDir before Filband in bands, OutDir in
\* pw2wannier90), not Io and no text, provided that a pw input passes
\* validate; a pw input that fails validate gets the Input error with the
\* list of validate instead, which is no text and not Io either.
C12_BadPathNamedErrorWhenValid ==
    (result.op \in MakeOps /\ BadPathErrors # <<>>) =>
        /\ IsErr(result.val)
        /\ result.val[2][1] # "Io"
        /\ IF prog = "pw" /\ IsErr(validate(input))
           THEN result.val = Err(InputError(validate(input)[2]))
           ELSE result.val = Err(BadPathErrors[1])

\* C12 witness: bands rendered an input whose out_dir and filband are both
\* not UTF-8 and returned OutDir.
C12_Witness ==
    /\ result.op = "bands::serialize::make_input_file"
    /\ BadPathErrors = <<OutDir, Filband>>
    /\ result.val = Err(OutDir)


--------------------------------------------------------------------------
(* Properties of repeated calls. *)

--------------------------------------------------------------------------
(* Properties of the Calculation variant. *)

\* The errors of the list that carry the tag.
Tagged(errs, tag) == {i \in DOMAIN errs : errs[i][1] = tag}

\* C14: the Calculation variant selects the same threshold for validate and
\* for the renderer.  For Scf, validate reports conv_thr <= 0 as ConvThr and
\* never reports DiagoThrInit, and the electrons group has one conv_thr line
\* with that value and no diago_thr_init line; for Nscf and Bands, validate
\* reports diago_thr_init <= 0 as DiagoThrInit and never ConvThr, and the
\* electrons group has one diago_thr_init line and no conv_thr line; the
\* calculation of the control group is 'scf', 'nscf' or 'bands'.
C14_CalculationSelectsThreshold ==
    LET calculation == input.calculation
        scf == calculation.kind = "Scf"
    IN  /\ Validated =>
              LET errs == ErrsOf(result.val)
                  conv == Tagged(errs, "ConvThr")
                  diago == Tagged(errs, "DiagoThrInit")
              IN  IF scf
                  THEN /\ diago = {}
                       /\ Cardinality(conv) = (IF calculation.conv_thr <= 0 THEN 1 ELSE 0)
                       /\ \A i \in conv : errs[i] = <<"ConvThr", calculation.conv_thr>>
                  ELSE /\ calculation.kind \in {"Nscf", "Bands"}
                       /\ conv = {}
                       /\ Cardinality(diago)
                            = (IF calculation.diago_thr_init <= 0 THEN 1 ELSE 0)
                       /\ \A i \in diago :
                             errs[i] = <<"DiagoThrInit", calculation.diago_thr_init>>
        /\ Rendered =>
              LET electrons == SectionOf(result.val[2], " &electrons").body
                  control == SectionOf(result.val[2], " &control")
              IN  /\ IF scf
                     THEN /\ Cardinality(FieldsNamed(electrons, "conv_thr")) = 1
                          /\ FieldsNamed(electrons, "diago_thr_init") = {}
                          /\ \A i \in FieldsNamed(electrons, "conv_thr") :
                                FieldValue(electrons[i])
                                  = <<ToString(calculation.conv_thr) \o "e0">>
                     ELSE /\ Cardinality(FieldsNamed(electrons, "diago_thr_init")) = 1
                          /\ FieldsNamed(electrons, "conv_thr") = {}
                          /\ \A i \in FieldsNamed(electrons, "diago_thr_init") :
                                FieldValue(electrons[i])
                                  = <<ToString(calculation.diago_thr_init) \o "e0">>
                  /\ TheField(control, "calculation")
                       = <<"'", (CASE calculation.kind = "Scf" -> "scf"
                                   [] calculation.kind = "Nscf" -> "nscf"
                                   [] calculation.kind = "Bands" -> "bands"), "'">>

\* C14 witness: a Bands input has been rendered with a diago_thr_init line.
C14_Witness ==
    /\ Rendered
    /\ input.calculation.kind = "Bands"
    /\ FieldsNamed(SectionOf(result.val[2], " &electrons").body, "diago_thr_init") # {}

\* C14 witness of the validation half: validate reported the threshold of an
\* Nscf input.
C14_WitnessValidate ==
    /\ Validated
    /\ input.calculation.kind = "Nscf"
    /\ Tagged(ErrsOf(result.val), "DiagoThrInit") # {}


--------------------------------------------------------------------------
(* Properties of the error messages. *)

Displayed == result.op = "fmt::Display"

\* The ErrorList that was displayed, alone or inside Error::Input.
DisplayedList ==
    IF result.of.op = "pw::input::validate" THEN result.of.val[2]
    ELSE result.of.val[2][2]

\* C15: the text of an ErrorList is the texts of its errors joined by single
\* line breaks, in list order, with no separator before the first or after
\* the last: the message of a failed validate has one line per violation, in
\* the check order of validate, and the Input error of the pw renderer
\* displays the same text.
C15_ErrorListDisplay ==
    Displayed =>
        LET errs == DisplayedList.errs
        IN  /\ DisplayedList = validate(input)[2]
            /\ Len(errs) = ViolationCount(input)
            /\ Len(result.val) = Len(errs)
            /\ \A i \in DOMAIN errs : result.val[i] = input_Error_fmt(errs[i])[1]
            /\ result.val = ErrorList_fmt(validate(input)[2])
            /\ (/\ input.system.alat = 1 /\ input.system.ecutwfc = -1
                /\ input.system.ecutrho = 1
                /\ input.system.occupations.kind = "Tetrahedra"
                /\ input.calculation = Scf(1)
                /\ input.species = <<Species("Fe", 1), Species("O", 0)>>)
               => result.val =
                    << <<"Wavefunction cutoff energy ", Backquote, "ecutwfc", Backquote,
                         " must be positive; got ",
                         "-1", " instead.">>,
                       <<"Atomic mass must be positive; for atom ", "O", " got ",
                         "0", " instead.">> >>

\* C15 witness: the Input error of the renderer has been displayed for an
\* input that violates three rules, as a text of three lines.
C15_Witness ==
    /\ Displayed
    /\ result.of.op = "pw::serialize::make_input_file"
    /\ Len(DisplayedList.errs) = 3
    /\ Len(result.val) = 3


--------------------------------------------------------------------------
(* Properties of the bands and pw2wannier90 texts. *)

\* A line name=value, of either indentation.
IsNamelistField(line) ==
    /\ Len(line) >= 5
    /\ line[1] \in {"   ", "    "}
    /\ line[3] = "="
    /\ line[Len(line)] = ","

\* The name when the field is set, nothing when it is not.
NameIfSet(field, name) == IF IsSome(field) THEN <<name>> ELSE <<>>

BoolText(b) == IF b THEN <<".true.">> ELSE <<".false.">>

\* The text is the one group: the header, one field line per name in this
\* order, and the terminator.
IsOneGroup(text, header, names) ==
    /\ Len(text) = Len(names) + 2
    /\ text[1] = <<header>>
    /\ text[Len(text)] = <<" /">>
    /\ \A i \in DOMAIN names :
          /\ IsNamelistField(text[i + 1])
          /\ text[i + 1][2] = names[i]

\* The value of the one line of the text with the name.
ValueOf(text, name) ==
    LET i == CHOOSE k \in DOMAIN text : IsNamelistField(text[k]) /\ text[k][2] = name
    IN  SubSeq(text[i], 4, Len(text[i]) - 1)

\* C16: a text of bands or pw2wannier90 is one namelist group and no card:
\* the header (" &bands", " &inputpp") first, the terminator " /" last, and
\* between them the fields in fixed order (bands: prefix, out_dir, filband,
\* lsym; pw2wannier90: prefix, out_dir, seedname, write_unk, write_amn,
\* write_mmn, write_spn), an optional field exactly when it is set, a
\* required one exactly once, the flags with the values of the input.
C16_OneNamelistGroup ==
    /\ (result.op = "bands::serialize::make_input_file" /\ IsOk(result.val)) =>
          LET text == result.val[2]
          IN  /\ IsOneGroup(text, " &bands",
                            NameIfSet(input.prefix, "prefix")
                            \o NameIfSet(input.out_dir, "out_dir")
                            \o NameIfSet(input.filband, "filband") \o <<"lsym">>)
              /\ ValueOf(text, "lsym") = BoolText(input.lsym)
    /\ (result.op = "pw2wannier90::serialize::make_input_file" /\ IsOk(result.val)) =>
          LET text == result.val[2]
          IN  /\ IsOneGroup(text, " &inputpp",
                            <<"prefix">> \o NameIfSet(input.out_dir, "out_dir")
                            \o <<"seedname", "write_unk", "write_amn", "write_mmn",
                                 "write_spn">>)
              /\ ValueOf(text, "prefix") = <<"'", input.prefix, "'">>
              /\ ValueOf(text, "seedname") = <<"'", input.seedname, "'">>
              /\ ValueOf(text, "write_unk") = BoolText(input.write_unk)
              /\ ValueOf(text, "write_amn") = BoolText(input.write_amn)
              /\ ValueOf(text, "write_mmn") = BoolText(input.write_mmn)
              /\ ValueOf(text, "write_spn") = BoolText(input.write_spn)

\* C16 witness: pw2wannier90 rendered an input with an out_dir to nine lines.
C16_Witness ==
    /\ result.op = "pw2wannier90::serialize::make_input_file"
    /\ IsOk(result.val)
    /\ IsSome(input.out_dir)
    /\ Len(result.val[2]) = 9

\* C16 witness for bands: an input with no optional field set gave the header,
\* lsym and the terminator, one with all three set gave six lines.
C16_WitnessBands ==
    /\ result.op = "bands::serialize::make_input_file"
    /\ IsOk(result.val)
    /\ \/ IsNone(input.prefix) /\ IsNone(input.out_dir) /\ IsNone(input.filband)
          /\ Len(result.val[2]) = 3
       \/ IsSome(input.prefix) /\ IsSome(input.out_dir) /\ IsSome(input.filband)
          /\ Len(result.val[2]) = 6


--------------------------------------------------------------------------
(* Properties of the fields without a line. *)

\* The calculations that differ from this one in nbnd and nosym at most.
CalculationVariants(calculation) ==
    IF calculation.kind = "Scf" THEN {calculation}
    ELSE {[calculation EXCEPT !.nbnd = nb, !.nosym = ns] :
             nb \in Opt({4, 5}), ns \in Opt(BOOLEAN)}

\* The occupations that differ from this one in the kind of smearing and in
\* a positive degauss at most.
OccupationsVariants(occupations) ==
    IF occupations.kind # "Smearing" THEN {occupations}
    ELSE {[occupations EXCEPT !.smearing = k, !.degauss = x] :
             k \in SmearingKinds, x \in {1, 2, 3}}

\* The inputs that differ from this one in these fields at most.
UnrenderedVariants(inp) ==
    {[inp EXCEPT !.calculation = c, !.system.occupations = o] :
        c \in CalculationVariants(inp.calculation),
        o \in OccupationsVariants(inp.system.occupations)}

\* C17: the text of pw does not depend on nbnd and nosym of Nscf and Bands
\* nor on the kind and the degauss of a smearing: every valid input that
\* differs from a rendered one in these fields only renders to the same
\* text, and the text has no line named after them.
C17_UnrenderedFields ==
    Rendered =>
        /\ \A other \in UnrenderedVariants(input) :
              /\ IsOk(validate(other))
              /\ pw_make_input_file(other) = result.val
        /\ \A i \in DOMAIN result.val[2] :
              IsField(result.val[2][i]) =>
                  result.val[2][i][2] \notin {"nbnd", "nosym", "degauss", "smearing"}

\* C17 witness: a Bands input with nbnd, nosym and a smearing has been
\* rendered, and it has variants with other values of the four fields.
C17_Witness ==
    /\ Rendered
    /\ input.calculation.kind = "Bands"
    /\ input.calculation.nbnd = Some(4)
    /\ input.calculation.nosym = Some(TRUE)
    /\ input.system.occupations = Smearing("FermiDirac", 2)
    /\ Cardinality(UnrenderedVariants(input)) = 108


====
